---- MODULE Spec2Model ----
(***************************************************************************)
(* Model of scholar_summary: the browser pipeline generateArticle          *)
(* (src/app/page.tsx), the three API routes and the three helper classes   *)
(* ScholarHelper, LLMHelper and CohereHelper.                               *)
(*                                                                         *)
(* A JavaScript string is a sequence of atoms.  An atom is one character   *)
(* ("a", " ", "'", ...) or one literal text of the source that the code    *)
(* only concatenates and tests for emptiness, never inspects by character. *)
(* The value undefined of an optional string field is the sequence         *)
(* Undefined.                                                              *)
(***************************************************************************)
EXTENDS Integers, Sequences, FiniteSets, TLC

VARIABLES apiKey, searchPc, searchRequest, query, callerQuery, requests,
          firstResults, searchResult,
          sumPc, summarizeBody, articleText, title, content, openaiResponse, extracted,
          summaryResult,
          httpStatus,
          cohereKey, coherePc, cohereBody, chatOutcome, cohereResult,
          interest, interests, article, loading, stage, requestInterests,
          cohereData,
          cleanQuery, scholarData, selectedResult, pageText, summaryData,
          calls, terminal

searchVars == <<apiKey, searchPc, searchRequest, query, callerQuery, requests,
                firstResults, searchResult>>

sumVars == <<sumPc, summarizeBody, articleText, title, content, openaiResponse, extracted,
             summaryResult>>

cohereVars == <<cohereKey, coherePc, cohereBody, chatOutcome, cohereResult>>

pageVars == <<interest, interests, article, loading, stage,
              requestInterests, cohereData,
              cleanQuery, scholarData, selectedResult, pageText, summaryData,
              calls, terminal>>

vars == <<searchVars, sumVars, httpStatus, cohereVars, pageVars>>

----------------------------------------------------------------------------
(* Bounds of the model                                                     *)

MaxLen == 5
MaxWords == 4
MaxResults == 2
MaxBody == 2

----------------------------------------------------------------------------
(* Strings                                                                 *)

Undefined == <<"#undefined">>
EmptyStr == <<>>

Min(a, b) == IF a < b THEN a ELSE b

\* the regular-expression class \s
IsWs(c) == c \in {" ", "\n", "\t"}

\* JavaScript truthiness of an optional string
TruthyStr(s) == s # Undefined /\ s # EmptyStr

RECURSIVE StringsUpTo(_, _)
StringsUpTo(alphabet, n) ==
  IF n = 0 THEN {EmptyStr}
  ELSE LET shorter == StringsUpTo(alphabet, n - 1)
       IN  shorter \cup {Append(s, c) : s \in shorter, c \in alphabet}

RECURSIVE Join(_, _)
Join(parts, sep) ==
  IF Len(parts) = 0 THEN EmptyStr
  ELSE IF Len(parts) = 1 THEN parts[1]
  ELSE parts[1] \o sep \o Join(Tail(parts), sep)

\* String.prototype.trim
RECURSIVE TrimStart(_)
TrimStart(s) ==
  IF Len(s) > 0 /\ IsWs(s[1]) THEN TrimStart(Tail(s)) ELSE s

RECURSIVE TrimEnd(_)
TrimEnd(s) ==
  IF Len(s) > 0 /\ IsWs(s[Len(s)]) THEN TrimEnd(SubSeq(s, 1, Len(s) - 1)) ELSE s

Trim(s) == TrimEnd(TrimStart(s))

----------------------------------------------------------------------------
(* ScholarHelper.searchArticles                                            *)

MinKeywordLen == 3
MaxKeywords == 3

\* query.replace(/['"]/g, '')
RemoveQuotes(s) == SelectSeq(s, LAMBDA c : c \notin {"'", "\""})

\* s.split(/\s+/): i is the next index, cur the token being read
RECURSIVE SplitWsFrom(_, _, _, _)
SplitWsFrom(s, i, tokens, cur) ==
  IF i > Len(s) THEN Append(tokens, cur)
  ELSE IF IsWs(s[i])
       THEN IF i > 1 /\ IsWs(s[i - 1])
            THEN SplitWsFrom(s, i + 1, tokens, cur)
            ELSE SplitWsFrom(s, i + 1, Append(tokens, cur), EmptyStr)
       ELSE SplitWsFrom(s, i + 1, tokens, Append(cur, s[i]))

SplitWs(s) == SplitWsFrom(s, 1, <<>>, EmptyStr)

\* Keywords with line 130 keeping the words of 3 characters too
KeywordsFromThree(q) ==
  LET words == SelectSeq(SplitWs(RemoveQuotes(q)),
                         LAMBDA w : Len(w) >= MinKeywordLen)
  IN  SubSeq(words, 1, Min(MaxKeywords, Len(words)))

\* the keywords of lines 127-131
Keywords(q) ==
  LET words == SelectSeq(SplitWs(RemoveQuotes(q)),
                         LAMBDA w : Len(w) > MinKeywordLen)
  IN  SubSeq(words, 1, Min(MaxKeywords, Len(words)))

GeneralQuery(q) == Join(Keywords(q), <<" ">>)

\* Broadens without the comparison of line 138
BroadensUnguarded(q, results) ==
  /\ results.kind = "array"
  /\ Len(results.items) = 0
  /\ Len(Keywords(q)) > 0

\* lines 123-141: does this response make the call recurse
Broadens(q, results) ==
  /\ results.kind = "array"
  /\ Len(results.items) = 0
  /\ Len(Keywords(q)) > 0
  /\ GeneralQuery(q) # q

\* JSON values of the field scholar_results
UndefinedValue == [kind |-> "undefined", items |-> <<>>]
NullValue == [kind |-> "null", items |-> <<>>]
ObjectValue == [kind |-> "object", items |-> <<>>]
ArrayValue(items) == [kind |-> "array", items |-> items]

\* JavaScript truthiness of such a value
Truthy(v) == v.kind \in {"array", "object"}

RECURSIVE SeqsUpTo(_, _)
SeqsUpTo(S, n) ==
  IF n = 0 THEN {<<>>}
  ELSE LET shorter == SeqsUpTo(S, n - 1)
       IN  shorter \cup {Append(s, x) : s \in shorter, x \in S}

\* ScholarSearchResult: the fields the program reads
SearchResults ==
  { [title |-> <<"T">>, title_link |-> <<"L">>, snippet |-> <<"S">>],
    [title |-> <<" ">>, title_link |-> Undefined, snippet |-> Undefined],
    [title |-> Undefined, title_link |-> <<"L">>, snippet |-> <<"S">>] }

ResultValues ==
  {UndefinedValue, NullValue, ObjectValue}
    \cup {ArrayValue(items) : items \in SeqsUpTo(SearchResults, MaxResults)}

NoDetails == [present |-> FALSE, query |-> Undefined, number_of_results |-> Undefined]

\* what the upstream puts in search_details for the query it was sent
UpstreamDetails(q) ==
  [present |-> TRUE, query |-> q, number_of_results |-> <<"About 5 results">>]

\* the outcomes of axios.get for the query q (line 110)
AxiosOutcomes(q) ==
  {[kind |-> k, details |-> NoDetails, results |-> UndefinedValue] :
      k \in {"network error", "status 204", "null body"}}
    \cup {[kind |-> "ok", details |-> d, results |-> r] :
            d \in {NoDetails, UpstreamDetails(q)}, r \in ResultValues}

MissingKeyMessage ==
  <<"ScrapingDog API key is not configured. Please set SCRAPINGDOG_KEY in .env.local">>

\* error.message of what the try block throws on this outcome
ErrorMessage(kind) ==
  CASE kind = "network error" -> <<"Network Error">>
    [] kind = "status 204" -> <<"Request failed with status code: 204">>
    [] OTHER -> <<"Cannot read properties of null (reading 'scholar_results')">>

\* the request a route of /api/scholar is handling: the parameter query of
\* GET, the fields interests and advanced of the body of POST
NoSearchRequest ==
  [method |-> "none", query |-> [kind |-> "undefined", str |-> <<>>],
   interests |-> UndefinedValue, advanced |-> FALSE]

NoResponse ==
  [search_details |-> NoDetails, scholar_results |-> UndefinedValue,
   error |-> Undefined]

\* lines 149-159: the response of the catch block of the call with query q
ErrorResponse(q, message) ==
  [search_details |->
     [present |-> TRUE, query |-> q, number_of_results |-> <<"0 results">>],
   scholar_results |-> ArrayValue(<<>>),
   error |-> message]

\* lines 145-148
PassThrough(outcome) ==
  [search_details |-> outcome.details,
   scholar_results |->
     IF Truthy(outcome.results) THEN outcome.results ELSE ArrayValue(<<>>),
   error |-> Undefined]

\* EnterSearchArticles without the test of the key of lines 97-99
EnterSearchArticlesUnchecked(q, n) ==
  /\ query' = q
  /\ searchPc' = "awaiting"
  /\ requests' = n + 1
  /\ searchResult' = NoResponse

\* lines 95-110: searchArticles(q) up to its await, n requests made so far
EnterSearchArticles(q, n) ==
  /\ query' = q
  /\ IF apiKey = EmptyStr
     THEN /\ searchPc' = "done"
          /\ requests' = n
          /\ searchResult' = ErrorResponse(q, MissingKeyMessage)
     ELSE /\ searchPc' = "awaiting"
          /\ requests' = n + 1
          /\ searchResult' = NoResponse

\* lines 110-159: the call resumes with the outcome of axios.get
ResumeSearchArticles(outcome) ==
  /\ firstResults' = IF requests = 1 THEN outcome.results ELSE firstResults
  /\ IF outcome.kind # "ok"
     THEN /\ searchPc' = "done"
          /\ searchResult' = ErrorResponse(query, ErrorMessage(outcome.kind))
          /\ UNCHANGED <<query, requests>>
     ELSE IF Broadens(query, outcome.results)
          THEN EnterSearchArticles(GeneralQuery(query), requests)
          ELSE /\ searchPc' = "done"
               /\ searchResult' = PassThrough(outcome)
               /\ UNCHANGED <<query, requests>>

----------------------------------------------------------------------------
(* Specification SearchSpec: callers of ScholarHelper.searchArticles       *)

ShortQueries == StringsUpTo({"a", " ", "'"}, MaxLen)

QueryWords == {<<"a", "a", "a", "a">>, <<"a", "a">>, <<"'", "a", "a", "a", "a">>}

WordQueries ==
  {Join(ws, <<" ">>) : ws \in SeqsUpTo(QueryWords, MaxWords)}

QueryInputs == ShortQueries \cup WordQueries

SearchIdle ==
  /\ searchPc = "idle"
  /\ searchRequest = NoSearchRequest
  /\ query = EmptyStr
  /\ callerQuery = EmptyStr
  /\ requests = 0
  /\ firstResults = UndefinedValue
  /\ searchResult = NoResponse

\* the constructor, line 82: SCRAPINGDOG_KEY is set or is not
SearchInit ==
  /\ apiKey \in {EmptyStr, <<"k">>}
  /\ SearchIdle

SearchCall ==
  /\ searchPc = "idle"
  /\ \E q \in QueryInputs :
       /\ callerQuery' = q
       /\ EnterSearchArticles(q, 0)
  /\ firstResults' = UndefinedValue
  /\ UNCHANGED <<apiKey, searchRequest>>

\* axios.get settles with one of the outcomes
AxiosSettles(outcomes) ==
  /\ searchPc = "awaiting"
  /\ \E outcome \in outcomes : ResumeSearchArticles(outcome)
  /\ UNCHANGED <<apiKey, callerQuery, searchRequest>>

AxiosResponds == AxiosSettles(AxiosOutcomes(query))

SearchReturn ==
  /\ searchPc = "done"
  /\ searchPc' = "idle"
  /\ searchRequest' = NoSearchRequest
  /\ query' = EmptyStr
  /\ callerQuery' = EmptyStr
  /\ requests' = 0
  /\ firstResults' = UndefinedValue
  /\ searchResult' = NoResponse
  /\ UNCHANGED apiKey

----------------------------------------------------------------------------
(* LLMHelper.summarizeArticle                                              *)

MaxArticleLength == 8000

TitleMarker == <<"t", "i", "t", "l", "e", ":">>

\* String.prototype.toLowerCase on the letters of the marker
LowerChar(c) ==
  CASE c = "T" -> "t" [] c = "I" -> "i" [] c = "L" -> "l" [] c = "E" -> "e"
    [] OTHER -> c

ToLowerCase(s) == [i \in 1..Len(s) |-> LowerChar(s[i])]

\* does pat occur in s at index i
OccursAt(s, pat, i) ==
  /\ i >= 1
  /\ i + Len(pat) - 1 <= Len(s)
  /\ SubSeq(s, i, i + Len(pat) - 1) = pat

\* s.includes(pat)
Includes(s, pat) == \E i \in 1..(Len(s) + 1) : OccursAt(s, pat, i)

\* lines 132-134
Truncate(text) ==
  IF Len(text) > MaxArticleLength
  THEN SubSeq(text, 1, MaxArticleLength) \o <<".", ".", ".">>
  ELSE text

\* the index after the longest run of \s that starts at index j
RECURSIVE SkipWs(_, _)
SkipWs(s, j) == IF j <= Len(s) /\ IsWs(s[j]) THEN SkipWs(s, j + 1) ELSE j

\* the index after the longest run of [^\n] that starts at index j
RECURSIVE SkipLine(_, _)
SkipLine(s, j) == IF j <= Len(s) /\ s[j] # "\n" THEN SkipLine(s, j + 1) ELSE j

\* \s*([^\n]+) matched at index j: \s* is greedy and gives characters back
\* until [^\n]+ can match one.  The start of the capture, 0 when no match.
CaptureStart(s, j) ==
  LET starts == {k \in j..SkipWs(s, j) : k <= Len(s) /\ s[k] # "\n"}
  IN  IF starts = {} THEN 0
      ELSE CHOOSE k \in starts : \A m \in starts : m <= k

\* /title:\s*([^\n]+)/i on s: the leftmost match, as the indices of its
\* start, of the start of its capture and after its end; at 0 when none
TitleMatch(s) ==
  LET low == ToLowerCase(s)
      hits == {i \in 1..Len(s) :
                 /\ OccursAt(low, TitleMarker, i)
                 /\ CaptureStart(s, i + Len(TitleMarker)) # 0}
  IN  IF hits = {} THEN [at |-> 0, capture |-> 0, end |-> 0]
      ELSE LET i == CHOOSE h \in hits : \A m \in hits : h <= m
               c == CaptureStart(s, i + Len(TitleMarker))
           IN  [at |-> i, capture |-> c, end |-> SkipLine(s, c)]

DefaultTitle == <<"Scholarly Article">>

\* lines 137-147: the title summarizeArticle uses for the text
ExtractTitle(text) ==
  LET t == Truncate(text)
      m == TitleMatch(t)
  IN  IF Includes(ToLowerCase(t), TitleMarker) /\ m.at # 0
      THEN Trim(SubSeq(t, m.capture, m.end - 1))
      ELSE DefaultTitle

\* lines 138-147: the content summarizeArticle uses for the text
ExtractContent(text) ==
  LET t == Truncate(text)
      m == TitleMatch(t)
  IN  IF Includes(ToLowerCase(t), TitleMarker) /\ m.at # 0
      THEN Trim(SubSeq(t, 1, m.at - 1) \o SubSeq(t, m.end, Len(t)))
      ELSE t

\* a JSON value read as a text: undefined, a string or a number
NoText == [kind |-> "undefined", str |-> EmptyStr]
NumberText == [kind |-> "number", str |-> EmptyStr]
ObjectText == [kind |-> "object", str |-> EmptyStr]
StringText(str) == [kind |-> "string", str |-> str]

\* JavaScript truthiness of such a value (the number is not 0)
TruthyText(t) ==
  t.kind \in {"number", "object"} \/ (t.kind = "string" /\ t.str # EmptyStr)

NoSummaryFromTextProperty == <<"No summary content available from text property.">>
UnableToExtract == <<"Unable to extract summary from response.">>

\* lines 202-207: the text of the first item of type output_text that has one
RECURSIVE FirstOutputText(_)
FirstOutputText(items) ==
  IF Len(items) = 0 THEN StringText(EmptyStr)
  ELSE IF items[1].type = "output_text" /\ TruthyText(items[1].text)
       THEN items[1].text
       ELSE FirstOutputText(Tail(items))

\* lines 189-237: the value of summary before the guard of line 240
ExtractSummary(response) ==
  IF response.output_text.kind = "string"
  THEN response.output_text
  ELSE IF response.output.kind = "array" /\ Len(response.output.items) > 0
  THEN IF response.output.items[1].kind = "array"
       THEN FirstOutputText(response.output.items[1].items)
       ELSE StringText(EmptyStr)
  ELSE IF response.text.kind # "undefined"
  THEN IF response.text.kind = "string"
       THEN response.text
       ELSE StringText(NoSummaryFromTextProperty)
  ELSE IF response.choices.kind # "absent"
  THEN IF /\ response.choices.kind = "array"
          /\ Len(response.choices.items) > 0
          /\ response.choices.items[1].message
          /\ TruthyText(response.choices.items[1].content)
       THEN response.choices.items[1].content
       ELSE StringText(EmptyStr)
  ELSE StringText(UnableToExtract)

DefaultSummary(t) ==
  <<"The article discusses ">> \o t
    \o <<". Unfortunately, not enough context was available to generate a detailed summary.">>

\* NeedsDefault without the test of the trimmed string
NeedsDefaultUntrimmed(str) ==
  \/ str = EmptyStr
  \/ (str[1] = "{" /\ str[Len(str)] = "}")

\* the condition of line 240 on a string
NeedsDefault(str) ==
  \/ str = EmptyStr
  \/ Trim(str) = EmptyStr
  \/ (str[1] = "{" /\ str[Len(str)] = "}")

ErrorTitle == <<"Error Summarizing Article">>
ErrorSummary == <<"There was an error generating the summary.">>

\* SummaryFailure taking every thrown value for no Error
SummaryFailureUnknown(message) ==
  [title |-> ErrorTitle, summary |-> ErrorSummary,
   error |-> <<"Unknown error summarizing article">>]

\* lines 245-252
SummaryFailure(message) ==
  [title |-> ErrorTitle, summary |-> ErrorSummary, error |-> message]

NoSummary == [title |-> Undefined, summary |-> Undefined, error |-> Undefined]

\* lines 239-252: what summarizeArticle returns for the title t and the
\* outcome of responses.create; trim is no method of a number
FinishSummary(t, outcome) ==
  IF outcome.kind = "throws"
  THEN SummaryFailure(outcome.message)
  ELSE LET value == ExtractSummary(outcome.response)
       IN  IF value.kind # "string"
           THEN SummaryFailure(<<"summary.trim is not a function">>)
           ELSE [title |-> t,
                 summary |-> IF NeedsDefault(value.str)
                             THEN DefaultSummary(t)
                             ELSE value.str,
                 error |-> Undefined]

\* the shapes of the value responses.create resolves to
SummaryTexts == {EmptyStr, <<" ">>, <<"{", "}">>, <<"{">>, <<"o", "k">>}

OutputTextValues == {NoText, NumberText} \cup {StringText(t) : t \in SummaryTexts}

ContentLists ==
  { <<>>,
    <<[type |-> "output_text", text |-> StringText(<<"o", "k">>)]>>,
    <<[type |-> "output_text", text |-> StringText(EmptyStr)]>>,
    <<[type |-> "output_text", text |-> NoText]>>,
    <<[type |-> "output_text", text |-> NumberText]>>,
    <<[type |-> "reasoning", text |-> StringText(<<"o", "k">>)]>>,
    <<[type |-> "reasoning", text |-> StringText(<<"n", "o">>)],
      [type |-> "output_text", text |-> StringText(<<"o", "k">>)]>> }

OutputValues ==
  {[kind |-> k, items |-> <<>>] : k \in {"absent", "other", "array"}}
    \cup {[kind |-> "array", items |-> <<[kind |-> "absent", items |-> <<>>]>>]}
    \cup {[kind |-> "array", items |-> <<[kind |-> "array", items |-> c]>>] :
            c \in ContentLists}

TextPropertyValues ==
  {NoText, ObjectText, StringText(EmptyStr), StringText(<<"o", "k">>)}

ChoicesValues ==
  {[kind |-> k, items |-> <<>>] : k \in {"absent", "array"}}
    \cup {[kind |-> "array",
           items |-> <<[message |-> FALSE, content |-> NoText]>>],
          [kind |-> "array",
           items |-> <<[message |-> TRUE, content |-> StringText(<<"o", "k">>)]>>]}

NoOpenAIResponse ==
  [output_text |-> NoText, output |-> [kind |-> "absent", items |-> <<>>],
   text |-> NoText, choices |-> [kind |-> "absent", items |-> <<>>]]

\* error.message of what openai.responses.create rejects with
ThrownMessages == {<<"Connection error.">>, <<"401 Incorrect API key provided">>}

\* no call of openai.responses.create has settled
NoOpenAIOutcome ==
  [kind |-> "none", message |-> Undefined, response |-> NoOpenAIResponse]

\* the outcomes of openai.responses.create (line 150)
OpenAIOutcomes ==
  {[kind |-> "throws", message |-> m, response |-> NoOpenAIResponse] :
      m \in ThrownMessages}
    \cup {[kind |-> "ok", message |-> Undefined,
           response |-> [output_text |-> ot, output |-> out, text |-> tx,
                         choices |-> ch]] :
            ot \in OutputTextValues, out \in OutputValues,
            tx \in TextPropertyValues, ch \in ChoicesValues}

\* lines 129-150: summarizeArticle(text) up to its await
EnterSummarizeArticle(text) ==
  /\ articleText' = text
  /\ title' = ExtractTitle(text)
  /\ content' = ExtractContent(text)
  /\ openaiResponse' = NoOpenAIOutcome
  /\ extracted' = NoText
  /\ summaryResult' = NoSummary
  /\ sumPc' = "awaiting"

\* lines 150-252: the call resumes with the outcome of responses.create
ResumeSummarizeArticle(outcome) ==
  /\ openaiResponse' = outcome
  /\ extracted' = IF outcome.kind = "ok"
                  THEN ExtractSummary(outcome.response) ELSE NoText
  /\ summaryResult' = FinishSummary(title, outcome)
  /\ sumPc' = "done"
  /\ UNCHANGED <<articleText, title, content>>

----------------------------------------------------------------------------
(* The route POST /api/summarize                                           *)

\* no body has been read
NoBodyText == [kind |-> "none", str |-> EmptyStr]

TextMustBeNonEmpty == <<"Text must be a non-empty string">>

\* route.ts line 16
InvalidText(text) ==
  \/ ~TruthyText(text)
  \/ text.kind # "string"
  \/ Trim(text.str) = EmptyStr

\* route.ts lines 9-29: the handler up to its await of summarizeArticle
EnterSummarizePOST(text) ==
  /\ summarizeBody' = text
  /\ IF InvalidText(text)
     THEN /\ httpStatus' = 400
          /\ summaryResult' =
               [title |-> Undefined, summary |-> Undefined,
                error |-> TextMustBeNonEmpty]
          /\ sumPc' = "done"
          /\ articleText' = IF text.kind = "string" THEN text.str ELSE EmptyStr
          /\ title' = EmptyStr
          /\ content' = EmptyStr
          /\ openaiResponse' = NoOpenAIOutcome
          /\ extracted' = NoText
     ELSE /\ httpStatus' = 0
          /\ EnterSummarizeArticle(text.str)

\* route.ts lines 33-38: the try block throws before summarizeArticle is
\* awaited (request.json or the constructors of lines 24-26)
SummarizePOSTThrows ==
  /\ httpStatus' = 500
  /\ sumPc' = "done"
  /\ summaryResult' =
       [title |-> Undefined, summary |-> Undefined, error |-> <<"Unknown error">>]
  /\ UNCHANGED <<summarizeBody, articleText, title, content, openaiResponse,
                 extracted>>

\* ResumeSummarizePOST answering 500 when responses.create has thrown
ResumeSummarizePOSTFailing(outcome) ==
  /\ ResumeSummarizeArticle(outcome)
  /\ UNCHANGED summarizeBody
  /\ httpStatus' = IF outcome.kind = "throws" THEN 500 ELSE 200

\* route.ts lines 29-32: summarizeArticle has resolved
ResumeSummarizePOST(outcome) ==
  /\ ResumeSummarizeArticle(outcome)
  /\ UNCHANGED summarizeBody
  /\ httpStatus' = 200

----------------------------------------------------------------------------
(* Specification SummarizeSpec: requests to POST /api/summarize            *)

TitleMarkers == {TitleMarker, <<"T", "I", "T", "L", "E", ":">>}

\* the X of "title: X\nY"
TitleInputs ==
  { EmptyStr, <<" ">>, <<"x">>, <<" ", "x", " ">>, <<"x", " ", "x">>,
    <<"{", "}">> }

\* the Y of "title: X\nY"
BodyInputs == StringsUpTo({"x", " ", "\n"}, MaxBody)

MarkedText(m, X, Y) == m \o <<" ">> \o X \o <<"\n">> \o Y

MarkedTexts ==
  {MarkedText(m, X, Y) : m \in TitleMarkers, X \in TitleInputs, Y \in BodyInputs}

OtherTexts ==
  { TitleMarker, TitleMarker \o <<" ">>, TitleMarker \o <<"\n", "\n">>,
    TitleMarker \o <<"x">>,
    <<"x", " ">> \o TitleMarker \o <<"\t", "x", " ", "\n", "x">>,
    <<"t", "i", "t", "l", "e">> }

TextInputs ==
  {NoText, NumberText}
    \cup {StringText(t) : t \in MarkedTexts \cup BodyInputs \cup OtherTexts}

SummarizeInit ==
  /\ sumPc = "idle"
  /\ summarizeBody = NoBodyText
  /\ articleText = EmptyStr
  /\ title = EmptyStr
  /\ content = EmptyStr
  /\ openaiResponse = NoOpenAIOutcome
  /\ extracted = NoText
  /\ summaryResult = NoSummary
  /\ httpStatus = 0

SummarizePOST ==
  /\ sumPc = "idle"
  /\ \E text \in TextInputs : EnterSummarizePOST(text)

\* responses.create settles with one of the outcomes
OpenAISettles(outcomes) ==
  /\ sumPc = "awaiting"
  /\ \E outcome \in outcomes : ResumeSummarizePOST(outcome)

OpenAIResponds == OpenAISettles(OpenAIOutcomes)

SummarizeReturn ==
  /\ sumPc = "done"
  /\ sumPc' = "idle"
  /\ summarizeBody' = NoBodyText
  /\ articleText' = EmptyStr
  /\ title' = EmptyStr
  /\ content' = EmptyStr
  /\ openaiResponse' = NoOpenAIOutcome
  /\ extracted' = NoText
  /\ summaryResult' = NoSummary
  /\ httpStatus' = 0


----------------------------------------------------------------------------
(* CohereHelper                                                            *)

IsDigit(c) == c \in {"0", "1", "2", "3", "4", "5", "6", "7", "8", "9"}

\* the index after the longest run of \d that starts at index j
RECURSIVE SkipDigits(_, _)
SkipDigits(s, j) == IF j <= Len(s) /\ IsDigit(s[j]) THEN SkipDigits(s, j + 1) ELSE j

\* /\d+\.\s*([^\n]+)/ matched at index i: the index after the match, 0 when none
NumberedEnd(s, i) ==
  LET d == SkipDigits(s, i)
  IN  IF d > i /\ d <= Len(s) /\ s[d] = "."
      THEN LET c == CaptureStart(s, d + 1)
           IN  IF c = 0 THEN 0 ELSE SkipLine(s, c)
      ELSE 0

\* response.match(/\d+\.\s*([^\n]+)/g) from index i on
RECURSIVE NumberedFrom(_, _)
NumberedFrom(s, i) ==
  IF i > Len(s) THEN <<>>
  ELSE IF NumberedEnd(s, i) # 0
       THEN <<SubSeq(s, i, NumberedEnd(s, i) - 1)>> \o NumberedFrom(s, NumberedEnd(s, i))
       ELSE NumberedFrom(s, i + 1)

\* item.replace(/^\d+\.\s*/, '').trim()
StripEnumeration(item) ==
  LET d == SkipDigits(item, 1)
  IN  IF d > 1 /\ d <= Len(item) /\ item[d] = "."
      THEN Trim(SubSeq(item, SkipWs(item, d + 1), Len(item)))
      ELSE Trim(item)

\* response.split('\n')
RECURSIVE SplitLinesFrom(_, _, _, _)
SplitLinesFrom(s, i, lines, cur) ==
  IF i > Len(s) THEN Append(lines, cur)
  ELSE IF s[i] = "\n"
       THEN SplitLinesFrom(s, i + 1, Append(lines, cur), EmptyStr)
       ELSE SplitLinesFrom(s, i + 1, lines, Append(cur, s[i]))

SplitLines(s) == SplitLinesFrom(s, 1, <<>>, EmptyStr)

StartsWith(s, pat) == OccursAt(s, pat, 1)

\* numberedList.map(item => ...), lines 86-89
StripAll(items) == [i \in 1..Len(items) |-> StripEnumeration(items[i])]

\* .map(line => line.trim()), line 95
TrimAll(lines) == [i \in 1..Len(lines) |-> Trim(lines[i])]

\* parseQueriesFromResponse without the last resort of line 103
parseQueriesWithoutLastResort(response) ==
  LET numberedList == NumberedFrom(response, 1)
      lineBreakQueries ==
        SelectSeq(TrimAll(SplitLines(response)),
                  LAMBDA line : /\ Len(line) > 0
                                /\ ~StartsWith(line, <<"H", "e", "r", "e">>)
                                /\ ~StartsWith(line, <<"B", "a", "s", "e", "d">>))
  IN  IF Len(numberedList) > 0 THEN StripAll(numberedList)
      ELSE lineBreakQueries

\* cohereHelper.ts lines 82-104
parseQueriesFromResponse(response) ==
  LET numberedList == NumberedFrom(response, 1)
      lineBreakQueries ==
        SelectSeq(TrimAll(SplitLines(response)),
                  LAMBDA line : /\ Len(line) > 0
                                /\ ~StartsWith(line, <<"H", "e", "r", "e">>)
                                /\ ~StartsWith(line, <<"B", "a", "s", "e", "d">>))
  IN  IF Len(numberedList) > 0 THEN StripAll(numberedList)
      ELSE IF Len(lineBreakQueries) > 0 THEN lineBreakQueries
      ELSE <<Trim(response)>>

\* the JSON value of the field queries: undefined or an array of strings
NoQueries == [kind |-> "undefined", items |-> <<>>]

NoCohereResult == [queries |-> NoQueries, error |-> Undefined]

\* no call of client.chat has settled
NoChatOutcome == [kind |-> "none", text |-> NoText]

\* cohereHelper.ts lines 50-74: what generateSearchQueries returns for the
\* outcome of client.chat; match is no method of undefined
FinishSearchQueries(outcome) ==
  IF outcome.kind = "throws"
  THEN [queries |-> ArrayValue(<<>>), error |-> <<"Connection error.">>]
  ELSE IF outcome.text.kind # "string"
  THEN [queries |-> ArrayValue(<<>>),
        error |-> <<"Cannot read properties of undefined (reading 'match')">>]
  ELSE [queries |-> ArrayValue(parseQueriesFromResponse(outcome.text.str)),
        error |-> Undefined]

----------------------------------------------------------------------------
(* The route POST /api/cohere                                              *)

\* no body has been read
NoBody == [kind |-> "none", items |-> <<>>]

MissingCohereKeyMessage ==
  <<"Cohere API key is not configured. Please set COHERE_KEY in .env.local">>

\* InvalidInterests without the test of the length
InvalidInterestsNotArray(value) == value.kind # "array"

\* part_001 line 17 and page.tsx line 383, for the JSON value of the field
\* interests
InvalidInterests(value) == value.kind # "array" \/ Len(value.items) = 0

\* part_001 lines 10-28 and cohereHelper.ts lines 30-61: the handler up to
\* the await of client.chat
EnterCoherePOST(value) ==
  /\ cohereBody' = value
  /\ chatOutcome' = NoChatOutcome
  /\ IF InvalidInterests(value)
     THEN /\ httpStatus' = 400
          /\ coherePc' = "done"
          /\ cohereResult' =
               [queries |-> NoQueries,
                error |-> <<"Interests must be a non-empty array">>]
     ELSE IF cohereKey = EmptyStr
     THEN /\ httpStatus' = 500
          /\ coherePc' = "done"
          /\ cohereResult' =
               [queries |-> NoQueries, error |-> MissingCohereKeyMessage]
     ELSE /\ httpStatus' = 0
          /\ coherePc' = "awaiting"
          /\ cohereResult' = NoCohereResult

\* cohereHelper.ts lines 61-74 and part_001 lines 28-31
ResumeCoherePOST(outcome) ==
  /\ UNCHANGED cohereBody
  /\ chatOutcome' = outcome
  /\ cohereResult' = FinishSearchQueries(outcome)
  /\ coherePc' = "done"
  /\ httpStatus' = 200

\* the raw texts of the chat response
ChatTexts ==
  { <<"1", ".", " ", "'", "a", "a", "a", "a", "'", "\n",
      "2", ".", " ", "*", "*", "a", "*", "*">>,
    <<"*", "*">>,
    <<"H", "e", "r", "e", "\n", "a", "a", "a", "a", " ", "a">> }

\* the outcomes of client.chat (cohereHelper.ts line 56)
ChatOutcomes ==
  {[kind |-> "throws", text |-> NoText], [kind |-> "ok", text |-> NoText]}
    \cup {[kind |-> "ok", text |-> StringText(t)] : t \in ChatTexts}

CohereIdle ==
  /\ coherePc = "idle"
  /\ cohereBody = NoBody
  /\ chatOutcome = NoChatOutcome
  /\ cohereResult = NoCohereResult

CohereReset ==
  /\ coherePc' = "idle"
  /\ cohereBody' = NoBody
  /\ chatOutcome' = NoChatOutcome
  /\ cohereResult' = NoCohereResult

SearchReset ==
  /\ searchPc' = "idle"
  /\ searchRequest' = NoSearchRequest
  /\ query' = EmptyStr
  /\ callerQuery' = EmptyStr
  /\ requests' = 0
  /\ firstResults' = UndefinedValue
  /\ searchResult' = NoResponse

SummarizeReset ==
  /\ sumPc' = "idle"
  /\ summarizeBody' = NoBodyText
  /\ articleText' = EmptyStr
  /\ title' = EmptyStr
  /\ content' = EmptyStr
  /\ openaiResponse' = NoOpenAIOutcome
  /\ extracted' = NoText
  /\ summaryResult' = NoSummary

----------------------------------------------------------------------------
(* The route GET /api/scholar                                              *)

\* page.tsx lines 340-363: the handler GET up to the await of axios.get, for
\* the value of searchParams.get('query'); without a key searchArticles
\* returns at once and the route answers with what it returned
EnterScholarGET(param) ==
  /\ searchRequest' = [NoSearchRequest EXCEPT !.method = "GET", !.query = param]
  /\ firstResults' = UndefinedValue
  /\ IF ~TruthyText(param)
     THEN /\ httpStatus' = 400
          /\ searchPc' = "done"
          /\ searchResult' =
               [search_details |-> NoDetails, scholar_results |-> UndefinedValue,
                error |-> <<"Query parameter is required">>]
          /\ callerQuery' = EmptyStr
          /\ UNCHANGED <<query, requests>>
     ELSE /\ httpStatus' = IF apiKey = EmptyStr THEN 200 ELSE 0
          /\ callerQuery' = param.str
          /\ EnterSearchArticles(param.str, 0)

\* scholarHelper.ts line 171: the query of searchByInterests
InterestsQuery(items) == Join(items, <<" ">>)

And == <<" ", "A", "N", "D", " ">>
Or == <<" ", "O", "R", " ">>

\* searchWithAdvancedQuery joining the interests from the second on with OR
AdvancedQueryFromSecond(items) ==
  IF Len(items) = 1 THEN items[1]
  ELSE IF Len(items) = 2 THEN items[1] \o And \o items[2]
  ELSE <<"(">> \o Join(SubSeq(items, 1, 2), And) \o <<")">> \o And \o <<"(">>
         \o Join(SubSeq(items, 2, Len(items)), Or) \o <<")">>

\* scholarHelper.ts lines 184-195: the query of searchWithAdvancedQuery
AdvancedQuery(items) ==
  IF Len(items) = 1 THEN items[1]
  ELSE IF Len(items) = 2 THEN items[1] \o And \o items[2]
  ELSE <<"(">> \o Join(SubSeq(items, 1, 2), And) \o <<")">> \o And \o <<"(">>
         \o Join(SubSeq(items, 3, Len(items)), Or) \o <<")">>

\* page.tsx lines 376-402: the handler POST up to the await of axios.get, for
\* the fields interests and advanced of the body
EnterScholarPOST(value, advanced) ==
  /\ searchRequest' = [NoSearchRequest EXCEPT !.method = "POST",
                                              !.interests = value,
                                              !.advanced = advanced]
  /\ firstResults' = UndefinedValue
  /\ IF InvalidInterests(value)
     THEN /\ httpStatus' = 400
          /\ searchPc' = "done"
          /\ searchResult' =
               [search_details |-> NoDetails, scholar_results |-> UndefinedValue,
                error |-> <<"Interests must be a non-empty array">>]
          /\ callerQuery' = EmptyStr
          /\ UNCHANGED <<query, requests>>
     ELSE LET q == IF advanced THEN AdvancedQuery(value.items)
                   ELSE InterestsQuery(value.items)
          IN  /\ httpStatus' = IF apiKey = EmptyStr THEN 200 ELSE 0
              /\ callerQuery' = q
              /\ EnterSearchArticles(q, 0)

----------------------------------------------------------------------------
(* The page: Home of src/app/page.tsx                                      *)

NullArticle ==
  [title |-> Undefined, summary |-> Undefined, link |-> Undefined,
   originalTitle |-> Undefined]

Message(t, text) ==
  [title |-> t, summary |-> text, link |-> Undefined, originalTitle |-> Undefined]

NoQueriesArticle ==
  Message(<<"No Queries Generated">>,
          <<"We couldn't generate any queries based on your interests. Please try with different interests.">>)

NoResultsArticle(q) ==
  Message(<<"No Results Found for: ">> \o q,
          <<"We couldn't find any scholarly articles for the query: \"">> \o q
            \o <<"\". Please try with different interests.">>)

InvalidResultsArticle(q) ==
  Message(<<"Invalid Results Format for: ">> \o q,
          <<"The search results were not in the expected format. Please try again.">>)

ErrorProcessingArticle ==
  Message(<<"Error Processing Results">>,
          <<"We encountered an error while processing the search results. Please try again.">>)

GenericErrorArticle ==
  Message(<<"Error Generating Article">>,
          <<"An error occurred while generating the article. Please try again later.">>)

NoSummaryAvailable == <<"No summary available.">>

\* SuccessArticle reading a field link the result does not have
SuccessArticleWrongLinkField(summary, result) ==
  [title |-> IF TruthyStr(summary.title) THEN summary.title ELSE result.title,
   summary |-> IF TruthyStr(summary.summary) THEN summary.summary
               ELSE <<"No summary available.">>,
   link |-> Undefined,
   originalTitle |-> result.title]

\* lines 144-149
SuccessArticle(summary, result) ==
  [title |-> IF TruthyStr(summary.title) THEN summary.title ELSE result.title,
   summary |-> IF TruthyStr(summary.summary) THEN summary.summary
               ELSE NoSummaryAvailable,
   link |-> result.title_link,
   originalTitle |-> result.title]

NoResult == [title |-> Undefined, title_link |-> Undefined, snippet |-> Undefined]

\* selectedQuery.replace(/\*\*/g, ''), line 85
RECURSIVE RemoveEmphasis(_)
RemoveEmphasis(s) ==
  IF Len(s) = 0 THEN s
  ELSE IF Len(s) >= 2 /\ s[1] = "*" /\ s[2] = "*"
       THEN RemoveEmphasis(SubSeq(s, 3, Len(s)))
       ELSE <<s[1]>> \o RemoveEmphasis(Tail(s))

\* line 126
BuildArticleText(result) ==
  TitleMarker \o <<" ">> \o result.title \o <<"\n">>
    \o (IF TruthyStr(result.snippet) THEN result.snippet ELSE EmptyStr)

\* setArticle, setLoading(false) and the return or the end of generateArticle
EndRun(name, view) ==
  /\ article' = view
  /\ loading' = FALSE
  /\ stage' = "idle"
  /\ terminal' = name

\* the values typed into the interest box
InterestInputs == {EmptyStr, <<" ", "a">>}

PageInit ==
  /\ interest = EmptyStr
  /\ interests = <<>>
  /\ article = NullArticle
  /\ loading = FALSE
  /\ stage = "idle"
  /\ requestInterests = <<>>
  /\ cohereData = NoCohereResult
  /\ cleanQuery = EmptyStr
  /\ scholarData = NoResponse
  /\ selectedResult = NoResult
  /\ pageText = EmptyStr
  /\ summaryData = NoSummary
  /\ calls = <<>>
  /\ terminal = "none"

runVars == <<article, loading, stage, requestInterests, cohereData, cleanQuery,
             scholarData, selectedResult, pageText, summaryData, calls, terminal>>

\* the onChange handler of the interest box, line 236
SetInterest(value) ==
  /\ interest' = value
  /\ UNCHANGED <<interests, runVars>>

\* AddInterest testing and storing the text of the box as it was typed
AddInterestUntrimmed ==
  /\ IF Trim(interest) # EmptyStr
        /\ \A i \in 1..Len(interests) : interests[i] # interest
     THEN /\ interests' = Append(interests, interest)
          /\ interest' = EmptyStr
     ELSE UNCHANGED <<interest, interests>>
  /\ UNCHANGED runVars

\* lines 42-47
AddInterest ==
  /\ IF Trim(interest) # EmptyStr
        /\ \A i \in 1..Len(interests) : interests[i] # Trim(interest)
     THEN /\ interests' = Append(interests, Trim(interest))
          /\ interest' = EmptyStr
     ELSE UNCHANGED <<interest, interests>>
  /\ UNCHANGED runVars

\* lines 49-53
RemoveInterest ==
  /\ \E index \in 1..Len(interests) :
       interests' = SubSeq(interests, 1, index - 1)
                      \o SubSeq(interests, index + 1, Len(interests))
  /\ UNCHANGED <<interest, runVars>>

\* GenerateArticle behind a button that stays enabled while loading
GenerateArticleWhileLoading ==
  /\ Len(interests) # 0
  /\ loading' = TRUE
  /\ stage' = "cohere"
  /\ requestInterests' = interests
  /\ calls' = <<"queries">>
  /\ terminal' = "none"
  /\ cohereData' = NoCohereResult
  /\ cleanQuery' = EmptyStr
  /\ scholarData' = NoResponse
  /\ selectedResult' = NoResult
  /\ pageText' = EmptyStr
  /\ summaryData' = NoSummary
  /\ UNCHANGED <<interest, interests, article>>

\* lines 55-67 behind the button of lines 273-275: generateArticle up to the
\* await of its first fetch
GenerateArticle ==
  /\ ~(Len(interests) = 0 \/ loading)
  /\ Len(interests) # 0
  /\ loading' = TRUE
  /\ stage' = "cohere"
  /\ requestInterests' = interests
  /\ calls' = <<"queries">>
  /\ terminal' = "none"
  /\ cohereData' = NoCohereResult
  /\ cleanQuery' = EmptyStr
  /\ scholarData' = NoResponse
  /\ selectedResult' = NoResult
  /\ pageText' = EmptyStr
  /\ summaryData' = NoSummary
  /\ UNCHANGED <<interest, interests, article>>

\* HasNoQueries without the test of the length
HasNoQueriesMissingOnly(data) == data.queries.kind # "array"

\* line 71
HasNoQueries(data) ==
  data.queries.kind # "array" \/ Len(data.queries.items) = 0

\* lines 69-88: the fetch of /api/cohere has resolved with data; replace is
\* no method of the undefined that an array without elements yields
AfterCohere(data) ==
  /\ cohereData' = data
  /\ IF HasNoQueries(data)
     THEN /\ EndRun("no-queries", NoQueriesArticle)
          /\ calls' = Append(calls, "queries done")
          /\ UNCHANGED cleanQuery
     ELSE IF Len(data.queries.items) = 0
     THEN /\ EndRun("generic-error", GenericErrorArticle)
          /\ calls' = Append(calls, "queries done")
          /\ UNCHANGED cleanQuery
     ELSE /\ \E randomIndex \in 1..Len(data.queries.items) :
               cleanQuery' = RemoveEmphasis(data.queries.items[randomIndex])
          /\ stage' = "scholar"
          /\ calls' = calls \o <<"queries done", "search">>
          /\ UNCHANGED <<article, loading, terminal>>
  /\ UNCHANGED <<interest, interests, requestInterests, scholarData,
                 selectedResult, pageText, summaryData>>

\* HasNoResults without the test of the length
HasNoResultsMissingOnly(results) == ~Truthy(results)

\* line 91
HasNoResults(results) ==
  ~Truthy(results) \/ (results.kind = "array" /\ Len(results.items) = 0)

\* lines 112-113: the results an index Math.floor(Math.random() * length) can
\* select; an array without elements yields undefined
Selectable(items) ==
  IF Len(items) = 0 THEN {NoResult} ELSE {items[i] : i \in 1..Len(items)}

\* AfterScholar searching again when there are no results
AfterScholarRetrying(data) ==
  /\ scholarData' = data
  /\ LET results == data.scholar_results
     IN  IF HasNoResults(results)
         THEN /\ stage' = "scholar"
              /\ calls' = calls \o <<"search done", "search">>
              /\ UNCHANGED <<article, loading, terminal, selectedResult, pageText>>
         ELSE IF results.kind # "array"
         THEN /\ EndRun("malformed-results", InvalidResultsArticle(cleanQuery))
              /\ calls' = Append(calls, "search done")
              /\ UNCHANGED <<selectedResult, pageText>>
         ELSE \E selected \in Selectable(results.items) :
                /\ selectedResult' = selected
                /\ IF ~TruthyStr(selected.title)
                   THEN /\ EndRun("selection-error", ErrorProcessingArticle)
                        /\ calls' = Append(calls, "search done")
                        /\ UNCHANGED pageText
                   ELSE /\ pageText' = BuildArticleText(selected)
                        /\ stage' = "summarize"
                        /\ calls' = calls \o <<"search done", "summarize">>
                        /\ UNCHANGED <<article, loading, terminal>>
  /\ UNCHANGED <<interest, interests, requestInterests, cohereData, cleanQuery,
                 summaryData>>

\* AfterScholar without the test Array.isArray of line 103
AfterScholarUnchecked(data) ==
  /\ scholarData' = data
  /\ LET results == data.scholar_results
     IN  IF HasNoResults(results)
         THEN /\ EndRun("no-results", NoResultsArticle(cleanQuery))
              /\ calls' = Append(calls, "search done")
              /\ UNCHANGED <<selectedResult, pageText>>
         ELSE \E selected \in Selectable(results.items) :
                /\ selectedResult' = selected
                /\ IF ~TruthyStr(selected.title)
                   THEN /\ EndRun("selection-error", ErrorProcessingArticle)
                        /\ calls' = Append(calls, "search done")
                        /\ UNCHANGED pageText
                   ELSE /\ pageText' = BuildArticleText(selected)
                        /\ stage' = "summarize"
                        /\ calls' = calls \o <<"search done", "summarize">>
                        /\ UNCHANGED <<article, loading, terminal>>
  /\ UNCHANGED <<interest, interests, requestInterests, cohereData, cleanQuery,
                 summaryData>>

\* lines 89-135: the fetch of /api/scholar has resolved with data
AfterScholar(data) ==
  /\ LET results == data.scholar_results
     IN  IF HasNoResults(results)
         THEN /\ EndRun("no-results", NoResultsArticle(cleanQuery))
              /\ calls' = Append(calls, "search done")
              /\ UNCHANGED <<selectedResult, pageText>>
         ELSE IF results.kind # "array"
         THEN /\ EndRun("malformed-results", InvalidResultsArticle(cleanQuery))
              /\ calls' = Append(calls, "search done")
              /\ UNCHANGED <<selectedResult, pageText>>
         ELSE \E selected \in Selectable(results.items) :
                /\ selectedResult' = selected
                /\ IF ~TruthyStr(selected.title)
                   THEN /\ EndRun("selection-error", ErrorProcessingArticle)
                        /\ calls' = Append(calls, "search done")
                        /\ UNCHANGED pageText
                   ELSE /\ pageText' = BuildArticleText(selected)
                        /\ stage' = "summarize"
                        /\ calls' = calls \o <<"search done", "summarize">>
                        /\ UNCHANGED <<article, loading, terminal>>
  /\ UNCHANGED <<interest, interests, requestInterests, cohereData, cleanQuery,
                 summaryData>>
  /\ scholarData' = data

\* AfterSummarize without the test of llmResponse.ok of line 137
AfterSummarizeUnchecked(status, data) ==
  /\ calls' = Append(calls, IF status \in 200..299 THEN "summarize done"
                            ELSE "summarize failed")
  /\ summaryData' = data
  /\ EndRun("success", SuccessArticle(data, selectedResult))
  /\ UNCHANGED <<interest, interests, requestInterests, cohereData, cleanQuery,
                 scholarData, selectedResult, pageText>>

\* lines 137-158: the fetch of /api/summarize has resolved
AfterSummarize(status, data) ==
  /\ IF status \in 200..299
     THEN /\ calls' = Append(calls, "summarize done")
          /\ summaryData' = data
          /\ EndRun("success", SuccessArticle(data, selectedResult))
     ELSE /\ calls' = Append(calls, "summarize failed")
          /\ summaryData' = NoSummary
          /\ EndRun("generic-error", GenericErrorArticle)
  /\ UNCHANGED <<interest, interests, requestInterests, cohereData, cleanQuery,
                 scholarData, selectedResult, pageText>>

\* lines 150-158: a fetch or the reading of its body has thrown
AfterThrow ==
  /\ EndRun("generic-error", GenericErrorArticle)
  /\ calls' = Append(calls, "thrown")
  /\ UNCHANGED <<interest, interests, requestInterests, cohereData, cleanQuery,
                 scholarData, selectedResult, pageText, summaryData>>

----------------------------------------------------------------------------
(* Specification Spec: the page, the three routes and their upstreams      *)

\* the server takes the request of line 61
CoherePOST ==
  /\ stage = "cohere"
  /\ coherePc = "idle"
  /\ EnterCoherePOST(ArrayValue(requestInterests))
  /\ UNCHANGED <<cohereKey, searchVars, sumVars, pageVars>>

ChatResponds ==
  /\ coherePc = "awaiting"
  /\ \E outcome \in ChatOutcomes : ResumeCoherePOST(outcome)
  /\ UNCHANGED <<cohereKey, searchVars, sumVars, pageVars>>

CohereFetchResolves ==
  /\ stage = "cohere"
  /\ coherePc = "done"
  /\ AfterCohere(cohereResult)
  /\ CohereReset
  /\ httpStatus' = 0
  /\ UNCHANGED <<cohereKey, searchVars, sumVars>>

\* the server takes the request of line 88
ScholarGET ==
  /\ stage = "scholar"
  /\ searchPc = "idle"
  /\ EnterScholarGET(StringText(cleanQuery))
  /\ UNCHANGED <<apiKey, sumVars, cohereVars, pageVars>>

\* the upstream outcomes of a run of the page
PageAxiosOutcomes(q) ==
  {o \in AxiosOutcomes(q) : o.kind = "ok" => o.details = UpstreamDetails(q)}

PageOpenAIOutcomes ==
  {o \in OpenAIOutcomes :
     o.kind = "ok" =>
       /\ o.response.output.kind = "absent"
       /\ o.response.choices.kind = "absent"
       /\ o.response.text.kind \in {"undefined", "object"}
       /\ o.response.output_text
            \in {NoText, StringText(EmptyStr), StringText(<<"o", "k">>)}}

ScholarUpstreamResponds ==
  /\ AxiosSettles(PageAxiosOutcomes(query))
  /\ httpStatus' = IF searchPc' = "done" THEN 200 ELSE 0
  /\ UNCHANGED <<sumVars, cohereVars, pageVars>>

ScholarFetchResolves ==
  /\ stage = "scholar"
  /\ searchPc = "done"
  /\ AfterScholar(searchResult)
  /\ SearchReset
  /\ httpStatus' = 0
  /\ UNCHANGED <<apiKey, sumVars, cohereVars>>

\* the server takes the request of line 129
SummarizeRequest ==
  /\ stage = "summarize"
  /\ sumPc = "idle"
  /\ EnterSummarizePOST(StringText(pageText))
  /\ UNCHANGED <<searchVars, cohereVars, pageVars>>

\* the request of line 129 is answered by the catch block of the route
SummarizeRouteFails ==
  /\ stage = "summarize"
  /\ sumPc = "idle"
  /\ SummarizePOSTThrows
  /\ UNCHANGED <<searchVars, cohereVars, pageVars>>

SummarizeUpstreamResponds ==
  /\ OpenAISettles(PageOpenAIOutcomes)
  /\ UNCHANGED <<searchVars, cohereVars, pageVars>>

SummarizeFetchResolves ==
  /\ stage = "summarize"
  /\ sumPc = "done"
  /\ AfterSummarize(httpStatus, summaryResult)
  /\ SummarizeReset
  /\ httpStatus' = 0
  /\ UNCHANGED <<searchVars, cohereVars>>

\* the awaited fetch rejects, or answers with a body that is no JSON
FetchFails ==
  /\ stage \in {"cohere", "scholar", "summarize"}
  /\ AfterThrow
  /\ CohereReset
  /\ SearchReset
  /\ SummarizeReset
  /\ httpStatus' = 0
  /\ UNCHANGED <<apiKey, cohereKey>>

EditInterests ==
  /\ \/ \E value \in InterestInputs : SetInterest(value)
     \/ AddInterest
     \/ RemoveInterest
  /\ UNCHANGED <<searchVars, sumVars, httpStatus, cohereVars>>

StartRun ==
  /\ GenerateArticle
  /\ UNCHANGED <<searchVars, sumVars, httpStatus, cohereVars>>

Init ==
  /\ SearchInit
  /\ SummarizeInit
  /\ cohereKey \in {EmptyStr, <<"k">>}
  /\ CohereIdle
  /\ PageInit

Next ==
  \/ EditInterests
  \/ StartRun
  \/ CoherePOST
  \/ ChatResponds
  \/ CohereFetchResolves
  \/ ScholarGET
  \/ ScholarUpstreamResponds
  \/ ScholarFetchResolves
  \/ SummarizeRequest
  \/ SummarizeRouteFails
  \/ SummarizeUpstreamResponds
  \/ SummarizeFetchResolves
  \/ FetchFails

Spec == Init /\ [][Next]_vars

----------------------------------------------------------------------------
(* Specification SearchSpec                                                *)

SearchNext ==
  \/ SearchCall /\ UNCHANGED <<sumVars, httpStatus, cohereVars, pageVars>>
  \/ AxiosResponds /\ UNCHANGED <<sumVars, httpStatus, cohereVars, pageVars>>
  \/ SearchReturn /\ UNCHANGED <<sumVars, httpStatus, cohereVars, pageVars>>

SearchSpecInit ==
  /\ SearchInit
  /\ SummarizeInit
  /\ cohereKey = <<"k">>
  /\ CohereIdle
  /\ PageInit

SearchSpec == SearchSpecInit /\ [][SearchNext]_vars

----------------------------------------------------------------------------
(* Specification SummarizeSpec                                             *)

SummarizeNext ==
  \/ SummarizePOST /\ UNCHANGED <<searchVars, cohereVars, pageVars>>
  \/ OpenAIResponds /\ UNCHANGED <<searchVars, cohereVars, pageVars>>
  \/ SummarizeReturn /\ UNCHANGED <<searchVars, cohereVars, pageVars>>

SummarizeSpecInit ==
  /\ apiKey = <<"k">>
  /\ SearchIdle
  /\ SummarizeInit
  /\ cohereKey = <<"k">>
  /\ CohereIdle
  /\ PageInit

SummarizeSpec == SummarizeSpecInit /\ [][SummarizeNext]_vars

----------------------------------------------------------------------------
(* Specification CohereSpec: requests to POST /api/cohere                  *)

ChatAlphabet == {"1", ".", " ", "\n", "a"}

\* the raw texts of the chat response
RawTexts ==
  StringsUpTo(ChatAlphabet, MaxLen) \cup ChatTexts
    \cup {<<"H", "e", "r", "e", "\n", "B", "a", "s", "e", "d">>}

RawChatOutcomes ==
  {[kind |-> "throws", text |-> NoText], [kind |-> "ok", text |-> NoText]}
    \cup {[kind |-> "ok", text |-> StringText(t)] : t \in RawTexts}

\* the JSON values of the field interests of the body
InterestsBodies ==
  {UndefinedValue, ObjectValue, ArrayValue(<<>>), ArrayValue(<<<<"a">>>>)}

CohereRequest ==
  /\ coherePc = "idle"
  /\ \E body \in InterestsBodies : EnterCoherePOST(body)
  /\ UNCHANGED cohereKey

\* client.chat settles with one of the outcomes
ChatSettles(outcomes) ==
  /\ coherePc = "awaiting"
  /\ \E outcome \in outcomes : ResumeCoherePOST(outcome)
  /\ UNCHANGED cohereKey

CohereReturn ==
  /\ coherePc = "done"
  /\ CohereReset
  /\ httpStatus' = 0
  /\ UNCHANGED cohereKey

CohereNext ==
  \/ CohereRequest /\ UNCHANGED <<searchVars, sumVars, pageVars>>
  \/ ChatSettles(RawChatOutcomes) /\ UNCHANGED <<searchVars, sumVars, pageVars>>
  \/ CohereReturn /\ UNCHANGED <<searchVars, sumVars, pageVars>>

CohereSpecInit ==
  /\ apiKey = <<"k">>
  /\ SearchIdle
  /\ SummarizeInit
  /\ cohereKey \in {EmptyStr, <<"k">>}
  /\ CohereIdle
  /\ PageInit

CohereSpec == CohereSpecInit /\ [][CohereNext]_vars

----------------------------------------------------------------------------
(* Specification RouteSpec: requests to the four handlers of the routes    *)

MaxInterests == 4

InterestNames == {<<"a">>, <<"b">>, <<"c">>, <<"d">>}

\* the JSON values of the field interests of a body
InterestsValues ==
  {UndefinedValue, NullValue, ObjectValue}
    \cup {ArrayValue(items) : items \in SeqsUpTo(InterestNames, MaxInterests)}

\* the values of searchParams.get('query'): null, or the string
QueryParams ==
  {NoText, StringText(EmptyStr), StringText(<<"a">>),
   StringText(<<"'", "a", "a", "a", "a">>)}

RouteIdle == coherePc = "idle" /\ searchPc = "idle" /\ sumPc = "idle"

RouteCoherePOST ==
  /\ RouteIdle
  /\ \E value \in InterestsBodies \cup {NullValue} : EnterCoherePOST(value)
  /\ UNCHANGED <<cohereKey, searchVars, sumVars, pageVars>>

RouteScholarGET ==
  /\ RouteIdle
  /\ \E param \in QueryParams : EnterScholarGET(param)
  /\ UNCHANGED <<apiKey, sumVars, cohereVars, pageVars>>

RouteScholarPOST ==
  /\ RouteIdle
  /\ \E value \in InterestsValues, advanced \in BOOLEAN :
       EnterScholarPOST(value, advanced)
  /\ UNCHANGED <<apiKey, sumVars, cohereVars, pageVars>>

RouteSummarizePOST ==
  /\ RouteIdle
  /\ SummarizePOST
  /\ UNCHANGED <<searchVars, cohereVars, pageVars>>

\* the response has been sent
RouteReturn ==
  /\ coherePc = "done" \/ searchPc = "done" \/ sumPc = "done"
  /\ CohereReset
  /\ SearchReset
  /\ SummarizeReset
  /\ httpStatus' = 0
  /\ UNCHANGED <<apiKey, cohereKey, pageVars>>

RouteNext ==
  \/ RouteCoherePOST
  \/ ChatResponds
  \/ RouteScholarGET
  \/ RouteScholarPOST
  \/ ScholarUpstreamResponds
  \/ RouteSummarizePOST
  \/ SummarizeUpstreamResponds
  \/ RouteReturn

RouteSpecInit ==
  /\ SearchInit
  /\ SummarizeInit
  /\ cohereKey \in {EmptyStr, <<"k">>}
  /\ CohereIdle
  /\ PageInit

RouteSpec == RouteSpecInit /\ [][RouteNext]_vars

----------------------------------------------------------------------------
(* Specification PageSpec: the page alone, under a user who types blanks   *)
(* and names with blanks around them; each fetch of generateArticle is     *)
(* answered with one of the bodies its route produces, or rejects          *)

TypedInterests ==
  {EmptyStr, <<" ">>, <<"a">>, <<" ", "a">>, <<"b", " ">>, <<"c">>}

\* the bodies of the answers of POST /api/cohere
CohereAnswers ==
  {[queries |-> ArrayValue(<<>>), error |-> <<"Connection error.">>],
   [queries |-> ArrayValue(<< <<"q">> >>), error |-> Undefined]}

\* the bodies of the answers of GET /api/scholar for the query q
ScholarAnswers(q) ==
  {ErrorResponse(q, <<"Network Error">>)}
    \cup {[search_details |-> UpstreamDetails(q), scholar_results |-> r,
           error |-> Undefined] :
            r \in {ObjectValue} \cup {ArrayValue(<<x>>) : x \in SearchResults}}

\* the status and the body of the answers of POST /api/summarize
SummarizeAnswers ==
  {[status |-> 200, data |-> SummaryFailure(<<"Connection error.">>)],
   [status |-> 500, data |-> NoSummary]}

EditTypedInterests ==
  /\ \/ \E value \in TypedInterests : SetInterest(value)
     \/ AddInterest
     \/ RemoveInterest
  /\ UNCHANGED <<searchVars, sumVars, httpStatus, cohereVars>>

CohereAnswered ==
  /\ stage = "cohere"
  /\ \E data \in CohereAnswers : AfterCohere(data)
  /\ UNCHANGED <<searchVars, sumVars, httpStatus, cohereVars>>

ScholarAnswered ==
  /\ stage = "scholar"
  /\ \E data \in ScholarAnswers(cleanQuery) : AfterScholar(data)
  /\ UNCHANGED <<searchVars, sumVars, httpStatus, cohereVars>>

SummarizeAnswered ==
  /\ stage = "summarize"
  /\ \E answer \in SummarizeAnswers : AfterSummarize(answer.status, answer.data)
  /\ UNCHANGED <<searchVars, sumVars, httpStatus, cohereVars>>

FetchRejected ==
  /\ stage \in {"cohere", "scholar", "summarize"}
  /\ AfterThrow
  /\ UNCHANGED <<searchVars, sumVars, httpStatus, cohereVars>>

PageNext ==
  \/ EditTypedInterests
  \/ StartRun
  \/ CohereAnswered
  \/ ScholarAnswered
  \/ SummarizeAnswered
  \/ FetchRejected

PageSpecInit ==
  /\ Init
  /\ apiKey # EmptyStr
  /\ cohereKey # EmptyStr

PageSpec == PageSpecInit /\ [][PageNext]_vars

\* PageSpec where every fetch that is awaited settles
FetchSettles ==
  \/ CohereAnswered
  \/ ScholarAnswered
  \/ SummarizeAnswered
  \/ FetchRejected

FairPageSpec == PageSpec /\ WF_vars(FetchSettles)

----------------------------------------------------------------------------
(* Claims about ScholarHelper.searchArticles, checked under SearchSpec     *)

\* C1: one call of searchArticles issues at most two upstream requests, the
\* first and one broadened retry; the broadened query is never broadened
\* again, also when the retry returns an empty result list.
C1_AtMostTwoRequests == requests <= 2

\* a call whose retry returned an empty list too, and which then returned
C1_RetryAlsoEmpty ==
  /\ searchPc = "done"
  /\ requests = 2
  /\ query # callerQuery
  /\ searchResult.scholar_results = ArrayValue(<<>>)
  /\ searchResult.error = Undefined

\* The derived keyword string in the words of C2: quotes stripped, split at
\* whitespace, tokens longer than 3 characters, the first three, joined by
\* one space.  A token is a maximal run without whitespace.
Unquoted(q) == SelectSeq(q, LAMBDA c : c # "'" /\ c # "\"")

TokenStarts(s) ==
  {i \in 1..Len(s) : ~IsWs(s[i]) /\ (i = 1 \/ IsWs(s[i - 1]))}

TokenLength(s, i) ==
  CHOOSE n \in 1..Len(s) :
    /\ \A k \in i..(i + n - 1) : k <= Len(s) /\ ~IsWs(s[k])
    /\ (i + n > Len(s) \/ IsWs(s[i + n]))

LongTokens(s) == {i \in TokenStarts(s) : TokenLength(s, i) > 3}

FirstThree(s) ==
  {i \in LongTokens(s) : Cardinality({j \in LongTokens(s) : j < i}) < 3}

RECURSIVE JoinTokens(_, _)
JoinTokens(s, at) ==
  IF at = {} THEN <<>>
  ELSE LET i == CHOOSE m \in at : \A j \in at : m <= j
           token == SubSeq(s, i, i + TokenLength(s, i) - 1)
       IN  IF at = {i} THEN token
           ELSE token \o <<" ">> \o JoinTokens(s, at \ {i})

DerivedKeywordString(q) == JoinTokens(Unquoted(q), FirstThree(Unquoted(q)))

RetriesExpected(q, first) ==
  IF /\ first = ArrayValue(<<>>)
     /\ LongTokens(Unquoted(q)) # {}
     /\ DerivedKeywordString(q) # q
  THEN 1 ELSE 0

\* C2: when the first response carries a present and empty result list,
\* exactly one retry is made if the derived keyword string differs from the
\* original query, none if it is identical or no token qualifies; none is
\* made when the first result list is non-empty or absent.
C2_RetryExactlyWhenBroadened ==
  (searchPc = "done" /\ requests >= 1) =>
    /\ requests - 1 = RetriesExpected(callerQuery, firstResults)
    /\ requests = 2 => query = DerivedKeywordString(callerQuery)

\* a call that retried once, with the derived keyword string
C2_Retried ==
  /\ searchPc = "done"
  /\ requests = 2
  /\ firstResults = ArrayValue(<<>>)
  /\ query = DerivedKeywordString(callerQuery)
  /\ query # callerQuery

\* C3: on any request failure, on the first request or on the retry, the
\* response carries the original query of the caller, the zero-result
\* string, an empty result list and a descriptive error string.
C3_FailureEchoesCallerQuery ==
  (searchPc = "done" /\ searchResult.error # Undefined) =>
    /\ searchResult.search_details.present
    /\ searchResult.search_details.query = callerQuery
    /\ searchResult.search_details.number_of_results = <<"0 results">>
    /\ searchResult.scholar_results = ArrayValue(<<>>)
    /\ Len(searchResult.error) > 0

\* C17: without a key searchArticles makes no upstream request, and its
\* caller receives a response whose error names the missing key
\* SCRAPINGDOG_KEY, with "0 results" and an empty list.
C17_MissingKeyFailsFast ==
  apiKey = EmptyStr
  => /\ searchPc # "awaiting"
     /\ requests = 0
     /\ searchPc = "done"
        => /\ searchResult.error =
                <<"ScrapingDog API key is not configured. Please set SCRAPINGDOG_KEY in .env.local">>
           /\ searchResult.scholar_results = ArrayValue(<<>>)
           /\ searchResult.search_details.number_of_results = <<"0 results">>

\* a call without a key has returned
C17_ReturnedWithoutKey ==
  /\ apiKey = EmptyStr
  /\ searchPc = "done"
  /\ callerQuery = <<"a", "a", "a", "a">>
  /\ searchResult.error # Undefined

----------------------------------------------------------------------------
(* Claims about generateArticle, checked under Spec                        *)

\* the stage event e is in the log of the run
InCalls(e) == \E i \in 1..Len(calls) : calls[i] = e

\* C4: a run whose query-generation response has an empty or missing queries
\* list ends in the no-queries terminal with the title "No Queries
\* Generated", and neither the search nor the summarizer is called in it.
C4_NoQueriesHalts ==
  (/\ InCalls("queries done")
   /\ (cohereData.queries.kind # "array" \/ Len(cohereData.queries.items) = 0))
  => /\ terminal = "no-queries"
     /\ article.title = <<"No Queries Generated">>
     /\ ~loading
     /\ ~InCalls("search")
     /\ ~InCalls("summarize")
     /\ searchPc = "idle" /\ requests = 0
     /\ sumPc = "idle"

\* a run that ended there on an empty list, the helper's hard failure
C4_EmptyQueries ==
  /\ terminal = "no-queries"
  /\ cohereData.queries = ArrayValue(<<>>)
  /\ cohereData.error # Undefined

\* C5: a run whose search response has an empty result list, after the
\* provider's own fallback, ends in the no-results terminal whose message
\* names the query the page searched, and the summarizer is not called.
C5_NoResultsHalts ==
  (/\ InCalls("search done")
   /\ scholarData.scholar_results = ArrayValue(<<>>))
  => /\ terminal = "no-results"
     /\ article.title = <<"No Results Found for: ">> \o cleanQuery
     /\ article.summary =
          <<"We couldn't find any scholarly articles for the query: \"">>
            \o cleanQuery \o <<"\". Please try with different interests.">>
     /\ article.link = Undefined
     /\ ~loading
     /\ ~InCalls("summarize")
     /\ sumPc = "idle"

\* a run that ended there after the provider's retry came back empty: the
\* upstream echoes the broadened query, not the page's
C5_EmptyAfterFallback ==
  /\ terminal = "no-results"
  /\ scholarData.scholar_results = ArrayValue(<<>>)
  /\ scholarData.error = Undefined
  /\ scholarData.search_details.present
  /\ scholarData.search_details.query # cleanQuery

CarriesTitleAndLink(result) ==
  TruthyStr(result.title) /\ TruthyStr(result.title_link)

\* the success terminal of C6
C6_Success ==
  /\ terminal = "success"
  /\ TruthyStr(article.title)
  /\ TruthyStr(article.summary)
  /\ TruthyStr(article.link)
  /\ TruthyStr(article.originalTitle)
  /\ scholarData.scholar_results.kind = "array"
  /\ \E i \in 1..Len(scholarData.scholar_results.items) :
       selectedResult = scholarData.scholar_results.items[i]
  /\ article.link = selectedResult.title_link
  /\ article.originalTitle = selectedResult.title

\* C6 as claimed: the query generator returns at least one query, the search
\* returns at least one result carrying a title and a link, the summarizer
\* returns; then the run ends in the success terminal with title, summary,
\* link and originalTitle populated, link and originalTitle those of the
\* selected result, which is an element of the result list.
C6_AnyResultCarries ==
  (/\ InCalls("summarize done")
   /\ ~HasNoQueries(cohereData)
   /\ scholarData.scholar_results.kind = "array"
   /\ \E i \in 1..Len(scholarData.scholar_results.items) :
        CarriesTitleAndLink(scholarData.scholar_results.items[i]))
  => C6_Success

\* C6 as amended: the same, when the result the page selects carries a title
\* and a link.
C6_SelectedResultCarries ==
  (/\ InCalls("summarize done")
   /\ ~HasNoQueries(cohereData)
   /\ CarriesTitleAndLink(selectedResult))
  => C6_Success

\* a successful run that selected among two results
C6_SuccessAmongTwo ==
  /\ terminal = "success"
  /\ CarriesTitleAndLink(selectedResult)
  /\ Len(scholarData.scholar_results.items) = 2
  /\ article.link = <<"L">>
  /\ article.summary = <<"o", "k">>

StageOrder == <<"queries", "queries done", "search", "search done", "summarize">>

IsPrefix(s, t) == Len(s) <= Len(t) /\ s = SubSeq(t, 1, Len(s))

LastCall == IF Len(calls) = 0 THEN "none" ELSE calls[Len(calls)]

\* C7: in one run the search call is issued only after the query-generation
\* call has completed and the summarize call only after the search call has
\* completed, each stage is called at most once, and no stage is entered
\* again after a later one has begun.
C7_StagesInOrder ==
  /\ LET body ==
           IF LastCall \in {"summarize done", "summarize failed", "thrown"}
           THEN SubSeq(calls, 1, Len(calls) - 1) ELSE calls
     IN  /\ IsPrefix(body, StageOrder)
         /\ LastCall \in {"summarize done", "summarize failed"} => body = StageOrder
         /\ LastCall = "thrown" => Len(body) \in {1, 3, 5}
  /\ coherePc # "idle" => stage = "cohere" /\ LastCall = "queries"
  /\ searchPc # "idle" => stage = "scholar" /\ LastCall = "search"
  /\ sumPc # "idle" => stage = "summarize" /\ LastCall = "summarize"
  /\ stage = "cohere" => LastCall = "queries"
  /\ stage = "scholar" => LastCall = "search"
  /\ stage = "summarize" => LastCall = "summarize"

\* a run that went through the three stages
C7_AllStages ==
  /\ terminal = "success"
  /\ calls = StageOrder \o <<"summarize done">>

C16_SummarizeFailureShown ==
  InCalls("summarize failed")
  => /\ terminal = "generic-error"
     /\ article.title = <<"Error Generating Article">>
     /\ article.summary =
          <<"An error occurred while generating the article. Please try again later.">>
     /\ article.link = Undefined
     /\ article.originalTitle = Undefined
     /\ ~loading

\* a run whose summarize call was answered 500 for a result with a link
C16_FailedAfterSelection ==
  /\ calls = StageOrder \o <<"summarize failed">>
  /\ terminal = "generic-error"
  /\ selectedResult.title_link = <<"L">>

----------------------------------------------------------------------------
(* Claims about summarizeArticle, checked under SummarizeSpec              *)

\* summarizeArticle has returned to the route
Summarized == sumPc = "done" /\ httpStatus = 200

Blank(str) == \A i \in 1..Len(str) : IsWs(str[i])

StructuredEcho(str) ==
  Len(str) > 0 /\ str[1] = "{" /\ str[Len(str)] = "}"

\* C8: whatever the text and whatever responses.create gives or throws, the
\* summary summarizeArticle returns is a non-empty string, and it is the
\* default sentence about the title whenever the text extracted from the
\* response is empty, only whitespace, or starts with "{" and ends with "}".
C8_SummaryNeverEmpty ==
  Summarized =>
    /\ summaryResult.summary # Undefined
    /\ Len(summaryResult.summary) > 0
    /\ (extracted.kind = "string"
          /\ (Blank(extracted.str) \/ StructuredEcho(extracted.str)))
       => summaryResult.summary =
            <<"The article discusses ">> \o summaryResult.title
              \o <<". Unfortunately, not enough context was available to generate a detailed summary.">>

\* a response whose text is only whitespace got the default summary
C8_DefaultForBlank ==
  /\ Summarized
  /\ extracted = StringText(<<" ">>)
  /\ title = <<"x">>
  /\ summaryResult.summary = DefaultSummary(<<"x">>)

\* C9: for every text the summarize endpoint accepts, the title
\* summarizeArticle returns is never the empty string.
C9_TitleNeverEmpty ==
  Summarized =>
    /\ summaryResult.title # Undefined
    /\ summaryResult.title # EmptyStr

\* C10: for the text "title: X\nY", the marker in any letter case, the title
\* is X trimmed and the body is Y (up to the trim of line 145); for a text
\* without the marker the title is "Scholarly Article".
C10_TitleLineExtracted ==
  (sumPc = "awaiting" \/ Summarized) =>
    /\ \A m \in TitleMarkers, X \in TitleInputs, Y \in BodyInputs :
         articleText = MarkedText(m, X, Y)
           => title = Trim(X) /\ content = Trim(Y)
    /\ ~Includes(ToLowerCase(articleText), TitleMarker)
         => title = <<"Scholarly Article">>

\* the texts of the four response shapes, in the order of the extraction:
\* output_text, the content of the first output item, text, choices
NestedText(r) ==
  IF r.output.kind = "array" /\ Len(r.output.items) > 0
       /\ r.output.items[1].kind = "array"
  THEN LET c == r.output.items[1].items
           found == {i \in 1..Len(c) :
                       c[i].type = "output_text" /\ TruthyText(c[i].text)}
       IN  IF found = {} THEN NoText
           ELSE c[CHOOSE i \in found : \A j \in found : i <= j].text
  ELSE NoText

LegacyText(r) ==
  IF r.choices.kind = "array" /\ Len(r.choices.items) > 0
       /\ r.choices.items[1].message
  THEN r.choices.items[1].content
  ELSE NoText

ShapeTexts(r) == <<r.output_text, NestedText(r), r.text, LegacyText(r)>>

UsableText(t) ==
  t.kind = "string" /\ ~Blank(t.str) /\ ~StructuredEcho(t.str)

\* C11: when the shapes of higher priority are absent or carry the empty
\* text and a shape of lower priority carries a text, the summary is the
\* text of the first shape, in the priority order, that carries one.
C11_FirstNonEmptyShape ==
  (Summarized /\ openaiResponse.kind = "ok")
  => LET texts == ShapeTexts(openaiResponse.response)
     IN  \A i \in 1..4 :
           (/\ UsableText(texts[i])
            /\ \A j \in 1..(i - 1) :
                 texts[j] = NoText \/ texts[j] = StringText(EmptyStr))
           => summaryResult.summary = texts[i].str

\* C12: when responses.create rejects, summarizeArticle returns to the route
\* (which answers 200) the title "Error Summarizing Article", the fixed
\* error summary and the message of the rejection in the field error.
C12_FailureIsReturned ==
  (sumPc = "done" /\ openaiResponse.kind = "throws")
  => /\ httpStatus = 200
     /\ summaryResult =
          [title |-> <<"Error Summarizing Article">>,
           summary |-> <<"There was an error generating the summary.">>,
           error |-> openaiResponse.message]
     /\ openaiResponse.message \in ThrownMessages

\* a rejected call for an unauthorized key
C12_Unauthorized ==
  /\ Summarized
  /\ openaiResponse.kind = "throws"
  /\ summaryResult.error = <<"401 Incorrect API key provided">>

----------------------------------------------------------------------------
(* Claims about CohereHelper, checked under CohereSpec                     *)

\* client.chat rejected, or resolved to a response without a text
HardFailure(outcome) ==
  outcome.kind = "throws" \/ outcome.text.kind # "string"

\* C13: generateSearchQueries returns to the route, whatever client.chat
\* does: the route answers 200 with an array queries, which is empty exactly
\* on a hard failure, and the field error is set exactly then.
C13_EmptyOnlyOnHardFailure ==
  (coherePc = "done" /\ chatOutcome.kind # "none")
  => /\ httpStatus = 200
     /\ cohereResult.queries.kind = "array"
     /\ Len(cohereResult.queries.items) = 0 <=> HardFailure(chatOutcome)
     /\ cohereResult.error # Undefined <=> Len(cohereResult.queries.items) = 0

\* the empty text of a response still gives one query
C13_EmptyTextOneQuery ==
  /\ coherePc = "done"
  /\ chatOutcome = [kind |-> "ok", text |-> StringText(EmptyStr)]
  /\ cohereResult.queries = ArrayValue(<<EmptyStr>>)
  /\ cohereResult.error = Undefined

\* digits and a full stop at the head of the string
LeadingEnumeration(str) ==
  \E d \in 2..Len(str) :
    /\ str[d] = "."
    /\ \A i \in 1..(d - 1) : IsDigit(str[i])

\* C14: for every raw text the parser returns a non-empty sequence whose
\* elements are trimmed strings without a leading enumeration marker.
C14_NoLeadingEnumeration ==
  (coherePc = "done" /\ chatOutcome.kind = "ok"
     /\ chatOutcome.text.kind = "string")
  => LET queries == cohereResult.queries.items
     IN  /\ Len(queries) > 0
         /\ \A i \in 1..Len(queries) :
              /\ queries[i] = Trim(queries[i])
              /\ ~LeadingEnumeration(queries[i])

----------------------------------------------------------------------------
(* Claims about the routes, checked under RouteSpec                        *)

\* interests is missing, no array, or empty
NoInterestsGiven(value) ==
  \/ value.kind \in {"undefined", "null", "object"}
  \/ value = ArrayValue(<<>>)

\* the input of the request to /api/scholar is missing or invalid
SearchInputInvalid ==
  \/ /\ searchRequest.method = "GET"
     /\ searchRequest.query \in {NoText, StringText(EmptyStr)}
  \/ /\ searchRequest.method = "POST"
     /\ NoInterestsGiven(searchRequest.interests)

\* C18: a response of GET or POST /api/scholar that carries an error has
\* status 400 when the input is missing or invalid and status 500 for every
\* other failure, a failed upstream request included.
C18_ErrorsHaveStatus ==
  (searchPc = "done" /\ searchRequest.method # "none"
     /\ searchResult.error # Undefined)
  => httpStatus = IF SearchInputInvalid THEN 400 ELSE 500

\* C19: each handler answers an invalid input with status 400 and an error,
\* without a call of its upstream: POST /api/cohere and POST /api/scholar for
\* interests missing, no array or empty, GET /api/scholar for a query missing
\* or empty, POST /api/summarize for a text missing, no string or blank.
C19_InvalidInputRejected ==
  /\ (coherePc # "idle" /\ NoInterestsGiven(cohereBody))
     => /\ coherePc = "done"
        /\ httpStatus = 400
        /\ cohereResult.error # Undefined
        /\ cohereResult.queries = NoQueries
        /\ chatOutcome = NoChatOutcome
  /\ (searchPc # "idle" /\ SearchInputInvalid)
     => /\ searchPc = "done"
        /\ httpStatus = 400
        /\ searchResult.error # Undefined
        /\ searchResult.scholar_results = UndefinedValue
        /\ requests = 0
  /\ (sumPc # "idle"
        /\ (summarizeBody.kind # "string" \/ Blank(summarizeBody.str)))
     => /\ sumPc = "done"
        /\ httpStatus = 400
        /\ summaryResult.error # Undefined
        /\ summaryResult.summary = Undefined
        /\ openaiResponse = NoOpenAIOutcome

\* POST /api/scholar has rejected an empty list of interests
C19_EmptyInterestsRejected ==
  /\ searchPc = "done"
  /\ searchRequest.method = "POST"
  /\ searchRequest.interests = ArrayValue(<<>>)
  /\ httpStatus = 400

\* the interests from index i on, joined by " OR "
RECURSIVE JoinedByOr(_, _)
JoinedByOr(items, i) ==
  IF i = Len(items) THEN items[i]
  ELSE items[i] \o <<" ", "O", "R", " ">> \o JoinedByOr(items, i + 1)

\* C20: searchWithAdvancedQuery searches with the interest itself for one
\* interest, with "A AND B" for two, and with "(A AND B) AND (" and the
\* others joined by " OR " and ")" for three or more: [a, b, c, d] gives
\* "(a AND b) AND (c OR d)".
C20_AdvancedQueryBuilt ==
  (searchPc # "idle" /\ searchRequest.method = "POST"
     /\ searchRequest.advanced /\ ~SearchInputInvalid)
  => LET items == searchRequest.interests.items
         and == <<" ", "A", "N", "D", " ">>
     IN  /\ Len(items) = 1 => callerQuery = items[1]
         /\ Len(items) = 2 => callerQuery = items[1] \o and \o items[2]
         /\ Len(items) >= 3 =>
              callerQuery = <<"(">> \o items[1] \o and \o items[2]
                              \o <<")">> \o and \o <<"(">>
                              \o JoinedByOr(items, 3) \o <<")">>
         /\ items = <<<<"a">>, <<"b">>, <<"c">>, <<"d">>>> =>
              callerQuery =
                <<"(", "a", " ", "A", "N", "D", " ", "b", ")", " ", "A", "N",
                  "D", " ", "(", "c", " ", "O", "R", " ", "d", ")">>
         /\ searchPc = "awaiting" => query = callerQuery

\* the advanced search for [a, b, c, d] has been answered
C20_FourInterests ==
  /\ searchPc = "done"
  /\ httpStatus = 200
  /\ searchRequest.advanced
  /\ searchRequest.interests = ArrayValue(<<<<"a">>, <<"b">>, <<"c">>, <<"d">>>>)
  /\ searchResult.error = Undefined
  /\ requests = 1
  /\ searchResult.search_details.query = callerQuery


----------------------------------------------------------------------------
(* Claims about a failing summarizer, checked under Spec                   *)

\* the article of the success terminal for a summarizer that failed
FailureArticle(result) ==
  [title |-> <<"Error Summarizing Article">>,
   summary |-> <<"There was an error generating the summary.">>,
   link |-> result.title_link,
   originalTitle |-> result.title]

\* C23: when responses.create throws, the summarize route answers 200 with
\* the fixed error title and summary, and the run that receives this answer
\* ends in the success terminal, not in the generic-error terminal: its
\* article has the title "Error Summarizing Article", the fixed error
\* summary, and the link and the title of the selected result.
C23_UpstreamFailureShownAsSuccess ==
  /\ []((sumPc = "done" /\ openaiResponse.kind = "throws")
        => (/\ httpStatus = 200
            /\ summaryResult.title = <<"Error Summarizing Article">>
            /\ summaryResult.summary =
                 <<"There was an error generating the summary.">>
            /\ summaryResult.error = openaiResponse.message))
  /\ [][(/\ openaiResponse.kind = "throws"
         /\ LastCall = "summarize"
         /\ LastCall' \in {"summarize done", "summarize failed"})
        => (/\ LastCall' = "summarize done"
            /\ terminal' = "success"
            /\ ~loading'
            /\ article' = FailureArticle(selectedResult))]_vars
  /\ []((InCalls("summarize done") /\ summaryData.error # Undefined)
        => (/\ terminal = "success"
            /\ article = FailureArticle(selectedResult)))

\* a run ended so for a result with a link, the key of the upstream being
\* refused
C23_ShownAfterUnauthorized ==
  /\ terminal = "success"
  /\ summaryData.error = <<"401 Incorrect API key provided">>
  /\ article.title = <<"Error Summarizing Article">>
  /\ article.link = <<"L">>
  /\ article.originalTitle = <<"T">>

----------------------------------------------------------------------------
(* Claims about the interest list, checked under PageSpec                  *)

WellFormedInterests(list) ==
  \A i \in 1..Len(list) :
    /\ list[i] # EmptyStr
    /\ Trim(list[i]) = list[i]
    /\ \A j \in 1..Len(list) : list[i] = list[j] => i = j

\* C21: whatever the user adds, removes and generates, the interest list
\* has no entry twice and no entry that is empty or has blanks around it;
\* the query-generation call of a run carries a list that is not empty; and
\* while the list is empty and no run is under way, no call is issued and
\* article and loading stay as they are.
C21_InterestsWellFormed ==
  /\ [](/\ WellFormedInterests(interests)
        /\ InCalls("queries") =>
             /\ Len(requestInterests) > 0
             /\ WellFormedInterests(requestInterests))
  /\ [][(Len(interests) = 0 /\ ~loading)
        => UNCHANGED <<article, loading, calls, requestInterests>>]_vars

\* the call of a run carried two interests, the list was emptied while the
\* call was under way and blanks were typed into the box
C21_EmptiedWhileCalling ==
  /\ stage = "cohere"
  /\ requestInterests = << <<"b">>, <<"a">> >>
  /\ Len(interests) = 0
  /\ interest = <<" ">>


----------------------------------------------------------------------------
(* Claims about the end of a run, checked under FairPageSpec               *)

Terminals ==
  {"no-queries", "no-results", "malformed-results", "selection-error",
   "success", "generic-error"}

\* a run has been started and has not reached its terminal
Running == Len(calls) > 0 /\ terminal = "none"

\* C22: a run that was started reaches a terminal; at a terminal an article
\* is shown and loading is false; a run has one terminal, which stays until
\* the next run starts; loading is true exactly from the start of a run to
\* its terminal; and while loading is true no run starts.
C22_EveryRunEnds ==
  /\ [](/\ terminal \in Terminals \cup {"none"}
        /\ loading <=> Running
        /\ loading <=> (stage # "idle")
        /\ (terminal \in Terminals) => (article # NullArticle /\ ~loading))
  /\ [][/\ (terminal \in Terminals)
           => (\/ terminal' = terminal
               \/ terminal' = "none" /\ calls' = <<"queries">> /\ loading')
        /\ loading
           => (/\ IsPrefix(calls, calls')
               /\ requestInterests' = requestInterests)]_vars
  /\ loading ~> (terminal \in Terminals)

\* a run ended on a result without a title, and the list was emptied
C22_EndedOnSelectionError ==
  /\ terminal = "selection-error"
  /\ article = ErrorProcessingArticle
  /\ ~loading
  /\ calls = <<"queries", "queries done", "search", "search done">>
  /\ Len(interests) = 0

====
